---- MODULE Spec2Model ----
(***************************************************************************)
(* Cross-log identity reconciliation and voting aggregation of leet_count  *)
(* (src/leet_count/count_leets.py), with the event flags of                *)
(* src/leet_count/extractor.py.                                            *)
(*                                                                         *)
(* A parsed log (a pandas DataFrame) is a sequence of rows; a pandas       *)
(* Series is a function from its index (a set of owner labels) to values;  *)
(* a NaN cell of a DataFrame column is an index label missing from the     *)
(* column's domain.  Index order (groupby sorts its keys) is LabelOrder.   *)
(***************************************************************************)
EXTENDS Integers, Sequences, FiniteSets, TLC

VARIABLES
    fnames,             \* keys of parsed_files_dict, in dict iteration order
    parsed_files_dict,  \* file name -> DataFrame (sequence of rows)
    parsed_raw,         \* history: parsed_files_dict as parse_log_files built it
    pc,                 \* position in count_leet_and_greet / map_names
    base_file,          \* map_names: the root file (None before selection)
    mapping,            \* map_names: file name -> conversion dict
    key_idx,            \* map_names: position of "for key in mapping"
    date_idx,           \* count_leet_and_greet: position of "for date in date_range"
    winner_leet,        \* the day's winners, as the lists the loop body last got
    winner_zeet,
    winner_420,
    counter_leet,       \* Counter: owner -> count (only positive counts kept)
    counter_zeet,
    counter_420,
    days_done           \* history: the dates the loop body has processed, in order

vars == <<fnames, parsed_files_dict, parsed_raw, pc, base_file, mapping, key_idx,
          date_idx, winner_leet, winner_zeet, winner_420,
          counter_leet, counter_zeet, counter_420, days_done>>

(***************************************************************************)
(* Owner labels are strings of characters; None is Python's None.          *)
(***************************************************************************)
Alice == <<"A", "l", "i", "c", "e">>
Bob == <<"B", "o", "b">>
Phone1 == <<"+", "4", "9", "1", "5", "1">>
None == <<"None">>

\* Lexicographic order of the labels (the order of a groupby index).
LabelOrder == <<Phone1, Alice, Bob>>

Rank(l) == CHOOSE i \in 1..Len(LabelOrder) : LabelOrder[i] = l

\* Bounds of the model.
MaxRecs == 2
NumDays == 2

\* pd.date_range(start, end): start is 2019-01-31, end is NumDays - 1 days later.
DateOf(i) ==
    IF i = 1 THEN [year |-> 2019, month |-> 1, day |-> 31]
             ELSE [year |-> 2019, month |-> 2, day |-> i - 1]

date_range == [i \in 1..NumDays |-> DateOf(i)]

(***************************************************************************)
(* extractor.py: the event flags of a row, from its timestamp.             *)
(***************************************************************************)
determine_leet(r) == IF r.minute = 37 /\ r.hour = 13 THEN 1 ELSE 0

determine_zeet(r) == IF r.minute = 37 /\ r.hour = 23 THEN 1 ELSE 0

determine_420(r) == IF r.minute = 20 /\ (r.hour = 16 \/ r.hour = 4) THEN 1 ELSE 0

Feat(r, feat_key) ==
    CASE feat_key = "is_leet" -> determine_leet(r)
      [] feat_key = "is_zeet" -> determine_zeet(r)
      [] feat_key = "is_420" -> determine_420(r)

\* One parsed row: parse_details plus split_time.
Row(owner, text, d, t) ==
    [message_owner |-> owner, message_text |-> text,
     year |-> d.year, month |-> d.month, day |-> d.day,
     hour |-> t[1], minute |-> t[2]]

(***************************************************************************)
(* Generic helpers.                                                        *)
(***************************************************************************)
Range(s) == {s[i] : i \in DOMAIN s}

RECURSIVE SetToSeq(_)
SetToSeq(S) ==
    IF S = {} THEN <<>>
    ELSE LET x == CHOOSE y \in S : TRUE IN <<x>> \o SetToSeq(S \ {x})

RECURSIVE SumOver(_, _)
SumOver(S, f) ==
    IF S = {} THEN 0
    ELSE LET x == CHOOSE y \in S : TRUE IN f[x] + SumOver(S \ {x}, f)

\* The rows of df a boolean mask selects: df[mask].
Select(df, mask) ==
    LET F[i \in 0..Len(df)] ==
            IF i = 0 THEN <<>>
            ELSE IF mask[i] THEN Append(F[i - 1], df[i]) ELSE F[i - 1]
    IN F[Len(df)]

\* The labels of S as a list in index (sorted) order.
SortedList(S) ==
    LET F[i \in 0..Len(LabelOrder)] ==
            IF i = 0 THEN <<>>
            ELSE IF LabelOrder[i] \in S THEN Append(F[i - 1], LabelOrder[i])
                 ELSE F[i - 1]
    IN F[Len(LabelOrder)]

\* How often x occurs in the list s.
Count(s, x) == Cardinality({i \in DOMAIN s : s[i] = x})

(***************************************************************************)
(* find_root_mapping_file                                                  *)
(***************************************************************************)
isdigit(c) == c \in {"0", "1", "2", "3", "4", "5", "6", "7", "8", "9"}

\* df['message_owner'].unique()
unique_owners(df) == {df[i].message_owner : i \in DOMAIN df}

valid_names(df) ==
    {x \in unique_owners(df) : ~(\E k \in DOMAIN x : isdigit(x[k]))}

\* A ratio a / b is kept as the pair <<a, b>>; 0 is <<0, 1>>.
RatioGeq(p, q) == p[1] * q[2] >= q[1] * p[2]

\* The scan with "ratio > utv_ratio" in place of ">=".
RootScanStrictRatio(keys, logs) ==
    LET F[n \in 0..Len(keys)] ==
            IF n = 0
            THEN [max_uniques |-> 0, utv_ratio |-> <<0, 1>>, base_file |-> None]
            ELSE LET prev == F[n - 1]
                     df == logs[keys[n]]
                     valid_users == Cardinality(valid_names(df))
                     ratio == <<valid_users, Cardinality(unique_owners(df))>>
                 IN IF df = <<>> THEN prev
                    ELSE IF valid_users >= prev.max_uniques
                            /\ ~RatioGeq(prev.utv_ratio, ratio)
                         THEN [max_uniques |-> valid_users, utv_ratio |-> ratio,
                               base_file |-> keys[n]]
                         ELSE prev
    IN F[Len(keys)]

\* The loop's state after the files keys[1..n]:
\* [max_uniques, utv_ratio, base_file].
RootScan(keys, logs) ==
    LET F[n \in 0..Len(keys)] ==
            IF n = 0
            THEN [max_uniques |-> 0, utv_ratio |-> <<0, 1>>, base_file |-> None]
            ELSE LET prev == F[n - 1]
                     df == logs[keys[n]]
                     valid_users == Cardinality(valid_names(df))
                     ratio == <<valid_users, Cardinality(unique_owners(df))>>
                 IN IF df = <<>> THEN prev
                    ELSE IF valid_users >= prev.max_uniques
                            /\ RatioGeq(ratio, prev.utv_ratio)
                         THEN [max_uniques |-> valid_users, utv_ratio |-> ratio,
                               base_file |-> keys[n]]
                         ELSE prev
    IN F[Len(keys)]

find_root_mapping_file(keys, logs) == RootScan(keys, logs).base_file

(***************************************************************************)
(* map_message_owner_names                                                 *)
(***************************************************************************)
\* pd.merge(base_df, map_df, on=[message_text, day, month, year]): the inner
\* join, as the pairs <<i, j>> of row numbers that agree on the key.
merged_dfs(base_df, map_df) ==
    {p \in (DOMAIN base_df) \X (DOMAIN map_df) :
        /\ base_df[p[1]].message_text = map_df[p[2]].message_text
        /\ base_df[p[1]].day = map_df[p[2]].day
        /\ base_df[p[1]].month = map_df[p[2]].month
        /\ base_df[p[1]].year = map_df[p[2]].year}

\* The root owners and the other file's owners that occur in a joined pair.
owners_x(base_df, map_df) ==
    {base_df[p[1]].message_owner : p \in merged_dfs(base_df, map_df)}

owners_y(base_df, map_df) ==
    {map_df[p[2]].message_owner : p \in merged_dfs(base_df, map_df)}

\* groupby('message_owner_x').message_owner_y.value_counts(): for each root
\* owner x of a joined pair, the number of joined pairs of x with each owner y
\* of the other file (normalising by the group's total does not change the
\* order within the group of x).  A count of 0 stands for a pair (x, y) that
\* value_counts does not list.
cnts(base_df, map_df) ==
    LET merged == merged_dfs(base_df, map_df)
        ys == owners_y(base_df, map_df)
    IN [x \in owners_x(base_df, map_df) |->
           [y \in ys |->
               Cardinality({p \in merged :
                               /\ base_df[p[1]].message_owner = x
                               /\ map_df[p[2]].message_owner = y})]]

\* The labels group.idxmax() can return for one group of cnts: a most
\* frequent y.  Which of several equally frequent labels is first in
\* value_counts' order is pandas' choice.
idxmax(group) ==
    {y \in DOMAIN group :
        group[y] > 0 /\ \A z \in DOMAIN group : group[z] <= group[y]}

\* The choices of one idxmax per group.
IdxMaxChoices(base_df, map_df) ==
    LET c == cnts(base_df, map_df)
        best == [x \in DOMAIN c |-> idxmax(c[x])]
    IN {pick \in [DOMAIN c -> owners_y(base_df, map_df)] :
           \A x \in DOMAIN c : pick[x] \in best[x]}

\* The pairs (x, pick[x]) not reversed: the root's label as the key.
map_message_owner_names_unreversed(base_df, map_df, pick) ==
    [x \in DOMAIN pick |-> pick[x]]

\* The dict of the reversed pairs in which the first pair with a key stays.
map_message_owner_names_first(base_df, map_df, pick) ==
    [y \in {pick[x] : x \in DOMAIN pick} |->
        CHOOSE x \in DOMAIN pick :
            /\ pick[x] = y
            /\ \A w \in DOMAIN pick : pick[w] = y => Rank(x) <= Rank(w)]

\* dict(mapping) of the reversed pairs (pick[x], x), appended group by group
\* in the sorted order of x: a later pair replaces an earlier one with the
\* same key.
map_message_owner_names(base_df, map_df, pick) ==
    [y \in {pick[x] : x \in DOMAIN pick} |->
        CHOOSE x \in DOMAIN pick :
            /\ pick[x] = y
            /\ \A w \in DOMAIN pick : pick[w] = y => Rank(w) <= Rank(x)]

\* map_root_to_other_logs: the files other than the root, in dict order.
files_to_map(keys, base) == SelectSeq(keys, LAMBDA k : k # base)

\* The choices of the idxmax results of a run: one choice per file to map.
PickChoices(base, keys, logs) ==
    LET fs == Range(files_to_map(keys, base))
        ch == [f \in fs |-> IdxMaxChoices(logs[base], logs[f])]
    IN {picks \in [fs -> UNION {ch[f] : f \in fs}] :
           \A f \in fs : picks[f] \in ch[f]}

\* create_mapping_dict: one conversion per file of files_to_map.
create_mapping_dict(base, keys, logs, picks) ==
    [f \in Range(files_to_map(keys, base)) |->
        map_message_owner_names(logs[base], logs[f], picks[f])]

\* A lookup that keeps the label it does not find.
GetOrKeep(conversion, label) ==
    IF label \in DOMAIN conversion THEN conversion[label] ELSE label

\* conversion.get(label)
Get(conversion, label) ==
    IF label \in DOMAIN conversion THEN conversion[label] ELSE None

\* df['message_owner'] = df['message_owner'].apply(conversion.get)
apply_conversion(df, conversion) ==
    [i \in DOMAIN df |->
        [df[i] EXCEPT !.message_owner = Get(conversion, df[i].message_owner)]]

(***************************************************************************)
(* get_section_winners                                                     *)
(***************************************************************************)
get_date_mask(day, file_df, month, year) ==
    [i \in DOMAIN file_df |->
        /\ file_df[i].day = day
        /\ file_df[i].month = month
        /\ file_df[i].year = year]

\* df.groupby('message_owner')[feat_key].sum(): a Series over the owners of
\* df; groupby leaves out the rows whose owner is None.
GroupSum(df, feat_key) ==
    [o \in unique_owners(df) \ {None} |->
        SumOver({i \in DOMAIN df : df[i].message_owner = o},
                [i \in DOMAIN df |-> Feat(df[i], feat_key)])]

\* The sums left as they are: no "filter possible duplicates" step.
CapSkipped(occ_count) == occ_count

\* occ_count[occ_count > 1] = 1
Cap(occ_count) ==
    [o \in DOMAIN occ_count |-> IF occ_count[o] > 1 THEN 1 ELSE occ_count[o]]

\* pd.DataFrame()
EmptyFrame == [index |-> {}, columns |-> <<>>]

\* scaffold_df[key] = series.  A frame with no rows takes a non-empty
\* series' index as its index; a frame with rows keeps its index: the series
\* is reindexed to it, labels outside the index are dropped and index labels
\* the series lacks become NaN.
SetColumn(frame, series) ==
    LET idx == IF frame.index = {} THEN DOMAIN series ELSE frame.index
    IN [index |-> idx,
        columns |-> Append(frame.columns,
                           [o \in idx \cap DOMAIN series |-> series[o]])]

\* The non-NaN cells of the row of o: <<their sum, their number>>.
RowCells(frame, o) ==
    LET has == {c \in DOMAIN frame.columns : o \in DOMAIN frame.columns[c]}
    IN <<SumOver(has, [c \in DOMAIN frame.columns |->
                          IF c \in has THEN frame.columns[c][o] ELSE 0]),
         Cardinality(has)>>

\* One file's capped sums of the day (lines 186-193).
occ_count(day, month, year, file_df, feat_key) ==
    LET mask == get_date_mask(day, file_df, month, year)
        sel_df == Select(file_df, mask)
    IN Cap(GroupSum(sel_df, feat_key))

\* The frame the loop over the files builds (lines 183-194).
section_scaffold(day, month, year, keys, logs, feat_key) ==
    LET F[n \in 0..Len(keys)] ==
            IF n = 0 THEN EmptyFrame
            ELSE SetColumn(F[n - 1],
                           occ_count(day, month, year, logs[keys[n]], feat_key))
    IN F[Len(keys)]

\* aggregated = scaffold_df.mean(axis=1) skips NaN cells; the winners are the
\* index labels whose mean is >= 0.5.
get_section_winners(day, month, year, keys, logs, feat_key) ==
    LET scaffold_df == section_scaffold(day, month, year, keys, logs, feat_key)
    IN SortedList({o \in scaffold_df.index :
                     LET m == RowCells(scaffold_df, o)
                     IN m[2] > 0 /\ 2 * m[1] >= m[2]})

(***************************************************************************)
(* get_winner_420 and calc_occurences_420                                  *)
(***************************************************************************)
\* One credit per day: the sum of the two windows capped like each of them.
calc_occurences_420_once(file_df, mask_04, mask_16) ==
    LET occ_count_04 == Cap(GroupSum(Select(file_df, mask_04), "is_420"))
        occ_count_16 == Cap(GroupSum(Select(file_df, mask_16), "is_420"))
        scaff == SetColumn(SetColumn(EmptyFrame, occ_count_04), occ_count_16)
    IN Cap([o \in scaff.index |-> RowCells(scaff, o)[1]])

calc_occurences_420(file_df, mask_04, mask_16) ==
    LET occ_count_04 == Cap(GroupSum(Select(file_df, mask_04), "is_420"))
        occ_count_16 == Cap(GroupSum(Select(file_df, mask_16), "is_420"))
        scaff == SetColumn(SetColumn(EmptyFrame, occ_count_04), occ_count_16)
    IN \* scaff.sum(axis=1): NaN cells count as 0
       [o \in scaff.index |-> RowCells(scaff, o)[1]]

\* The frame the loop over the files builds (lines 215-223).
scaffold_420(day, month, year, keys, logs) ==
    LET F[n \in 0..Len(keys)] ==
            IF n = 0 THEN EmptyFrame
            ELSE LET file_df == logs[keys[n]]
                     mask == get_date_mask(day, file_df, month, year)
                     mask_16 == [i \in DOMAIN file_df |->
                                    mask[i] /\ file_df[i].hour = 16]
                     mask_04 == [i \in DOMAIN file_df |->
                                    mask[i] /\ file_df[i].hour = 4]
                 IN SetColumn(F[n - 1],
                              calc_occurences_420(file_df, mask_04, mask_16))
    IN F[Len(keys)]

\* Rounding a tie up instead.
np_round_half_up(s, n) == (2 * s + n) \div (2 * n)

\* np.round(s / n, 0) for s, n >= 0, n > 0: to the nearest integer, a tie to
\* the even one.
np_round(s, n) ==
    LET q == s \div n
        r == s % n
    IN IF 2 * r < n THEN q
       ELSE IF 2 * r > n THEN q + 1
       ELSE IF q % 2 = 0 THEN q ELSE q + 1

\* form_vals: the rounded mean of each index label (a row of NaN only is
\* filled with 0).
form_vals(day, month, year, keys, logs) ==
    LET scaffold_df == scaffold_420(day, month, year, keys, logs)
    IN [o \in scaffold_df.index |->
           LET m == RowCells(scaffold_df, o)
           IN IF m[2] = 0 THEN 0 ELSE np_round(m[1], m[2])]

\* [key] * val
Repeat(key, val) == [i \in 1..val |-> key]

get_winner_420(day, month, year, keys, logs) ==
    LET vals == form_vals(day, month, year, keys, logs)
        F[i \in 0..Len(LabelOrder)] ==
            IF i = 0 THEN <<>>
            ELSE IF LabelOrder[i] \in DOMAIN vals
                 THEN F[i - 1] \o Repeat(LabelOrder[i], vals[LabelOrder[i]])
                 ELSE F[i - 1]
    IN F[Len(LabelOrder)]

(***************************************************************************)
(* Counter                                                                 *)
(***************************************************************************)
EmptyCounter == [o \in {} |-> 0]

\* counter = Counter(winners): the day's winners replace the tally.
CounterReplace(counter, winners) ==
    [o \in Range(winners) |-> Count(winners, o)]

\* counter += Counter(winners)
CounterAdd(counter, winners) ==
    [o \in DOMAIN counter \cup Range(winners) |->
        (IF o \in DOMAIN counter THEN counter[o] ELSE 0) + Count(winners, o)]

(***************************************************************************)
(* The inputs: what parse_log_files can hand over.  Every file of the      *)
(* collection has at least one row (empty files are dropped there).  No    *)
(* operation of the model reads the order of the rows of a log, so one     *)
(* order per multiset of rows is drawn.                                    *)
(***************************************************************************)
Rows(owners, texts, dates, times) ==
    {Row(o, x, d, t) : o \in owners, x \in texts, d \in dates, t \in times}

Logs(rows) ==
    LET rs == SetToSeq(rows)
    IN UNION {{[i \in 1..n |-> rs[idx[i]]] :
                  idx \in {j \in [1..n -> 1..Len(rs)] :
                              \A a \in 1..(n - 1) : j[a] <= j[a + 1]}} :
              n \in 1..MaxRecs}

InitWith(keys, rows) ==
    /\ fnames = keys
    /\ parsed_files_dict \in [Range(keys) -> Logs(rows)]
    /\ parsed_raw = parsed_files_dict
    /\ pc = "map_names"
    /\ base_file = None
    /\ mapping = <<>>
    /\ key_idx = 0
    /\ date_idx = 0
    /\ winner_leet = <<>>
    /\ winner_zeet = <<>>
    /\ winner_420 = <<>>
    /\ counter_leet = EmptyCounter
    /\ counter_zeet = EmptyCounter
    /\ counter_420 = EmptyCounter
    /\ days_done = <<>>

TwoFiles == <<"a.txt", "b.txt">>

ThreeFiles == <<"a.txt", "b.txt", "c.txt">>

(***************************************************************************)
(* count_leet_and_greet, from the call of map_names on.                    *)
(***************************************************************************)
\* map_names, line 113
FindRoot ==
    /\ pc = "map_names"
    /\ base_file' = find_root_mapping_file(fnames, parsed_files_dict)
    /\ pc' = "map_root_to_other_logs"
    /\ UNCHANGED <<fnames, parsed_files_dict, parsed_raw, mapping, key_idx,
                   date_idx, winner_leet, winner_zeet, winner_420,
                   counter_leet, counter_zeet, counter_420, days_done>>

\* map_names, line 115
MapRootToOtherLogs ==
    /\ pc = "map_root_to_other_logs"
    /\ \E picks \in PickChoices(base_file, fnames, parsed_files_dict) :
           mapping' = create_mapping_dict(base_file, fnames,
                                          parsed_files_dict, picks)
    /\ key_idx' = 1
    /\ pc' = "convert"
    /\ UNCHANGED <<fnames, parsed_files_dict, parsed_raw, base_file,
                   date_idx, winner_leet, winner_zeet, winner_420,
                   counter_leet, counter_zeet, counter_420, days_done>>

\* The loop left after its first pass.
ConvertNamesFirstOnly ==
    /\ pc = "convert"
    /\ key_idx <= Len(files_to_map(fnames, base_file))
    /\ LET key == files_to_map(fnames, base_file)[key_idx]
       IN parsed_files_dict' =
              [parsed_files_dict EXCEPT
                  ![key] = apply_conversion(parsed_files_dict[key], mapping[key])]
    /\ key_idx' = Len(files_to_map(fnames, base_file)) + 1
    /\ UNCHANGED <<fnames, parsed_raw, pc, base_file, mapping,
                   date_idx, winner_leet, winner_zeet, winner_420,
                   counter_leet, counter_zeet, counter_420, days_done>>

\* map_names, lines 116-121: one pass of "for key in mapping"
ConvertNames ==
    /\ pc = "convert"
    /\ key_idx <= Len(files_to_map(fnames, base_file))
    /\ LET key == files_to_map(fnames, base_file)[key_idx]
       IN parsed_files_dict' =
              [parsed_files_dict EXCEPT
                  ![key] = apply_conversion(parsed_files_dict[key], mapping[key])]
    /\ key_idx' = key_idx + 1
    /\ UNCHANGED <<fnames, parsed_raw, pc, base_file, mapping,
                   date_idx, winner_leet, winner_zeet, winner_420,
                   counter_leet, counter_zeet, counter_420, days_done>>

\* map_names returns; lines 288-302: the counters are created
StartLoop ==
    /\ pc = "convert"
    /\ key_idx > Len(files_to_map(fnames, base_file))
    /\ counter_leet' = EmptyCounter
    /\ counter_zeet' = EmptyCounter
    /\ counter_420' = EmptyCounter
    /\ date_idx' = 1
    /\ pc' = "loop"
    /\ UNCHANGED <<fnames, parsed_files_dict, parsed_raw, base_file, mapping,
                   key_idx, winner_leet, winner_zeet, winner_420, days_done>>

\* lines 304-326: the loop body for one date of the range
Day ==
    /\ pc = "loop"
    /\ date_idx <= Len(date_range)
    /\ LET date == date_range[date_idx]
           leet == get_section_winners(date.day, date.month, date.year,
                                       fnames, parsed_files_dict, "is_leet")
           zeet == get_section_winners(date.day, date.month, date.year,
                                       fnames, parsed_files_dict, "is_zeet")
           w420 == get_winner_420(date.day, date.month, date.year,
                                  fnames, parsed_files_dict)
       IN /\ winner_leet' = leet
          /\ winner_zeet' = zeet
          /\ winner_420' = w420
          /\ counter_leet' = CounterAdd(counter_leet, leet)
          /\ counter_zeet' = CounterAdd(counter_zeet, zeet)
          /\ counter_420' = CounterAdd(counter_420, w420)
          /\ days_done' = Append(days_done, date)
    /\ date_idx' = date_idx + 1
    /\ UNCHANGED <<fnames, parsed_files_dict, parsed_raw, pc, base_file,
                   mapping, key_idx>>

\* line 327
Return ==
    /\ pc = "loop"
    /\ date_idx > Len(date_range)
    /\ pc' = "done"
    /\ UNCHANGED <<fnames, parsed_files_dict, parsed_raw, base_file, mapping,
                   key_idx, date_idx, winner_leet, winner_zeet, winner_420,
                   counter_leet, counter_zeet, counter_420, days_done>>

Next ==
    \/ FindRoot
    \/ MapRootToOtherLogs
    \/ ConvertNames
    \/ StartLoop
    \/ Day
    \/ Return

\* Two logs, one message text: Alice at 13:37 and 04:20 on both days, at
\* 23:37 and 16:20 on the first; Bob at 13:37 and 16:20 on the second.
Init ==
    InitWith(TwoFiles,
             Rows({Alice}, {"a"}, {DateOf(1), DateOf(2)}, {<<13, 37>>, <<4, 20>>})
             \cup Rows({Alice}, {"a"}, {DateOf(1)}, {<<23, 37>>, <<16, 20>>})
             \cup Rows({Bob}, {"a"}, {DateOf(2)}, {<<13, 37>>, <<16, 20>>}))

Spec == Init /\ [][Next]_vars

\* Three logs of the first day: Alice at 13:37 and 23:37, Bob at 13:37.
InitWinners ==
    InitWith(ThreeFiles,
             Rows({Alice}, {"a"}, {DateOf(1)}, {<<13, 37>>, <<23, 37>>})
             \cup Rows({Bob}, {"a"}, {DateOf(1)}, {<<13, 37>>}))

SpecWinners == InitWinners /\ [][Next]_vars

\* Two logs in the 04 and 16 hours, at minute 20 and after it: Alice on both
\* days, Bob at 04:20 and 16:20 of the first.
Init420 ==
    InitWith(TwoFiles,
             Rows({Alice}, {"a"}, {DateOf(1), DateOf(2)},
                  {<<4, 20>>, <<16, 20>>, <<4, 21>>})
             \cup Rows({Bob}, {"a"}, {DateOf(1)}, {<<4, 20>>, <<16, 20>>}))

Spec420 == Init420 /\ [][Next]_vars

\* Two logs of two owners with two message texts on two days.
InitMap ==
    InitWith(TwoFiles,
             Rows({Alice, Bob}, {"a", "b"}, {DateOf(1), DateOf(2)}, {<<13, 37>>}))

SpecMap == InitMap /\ [][Next]_vars

\* Three logs with display names and phone numbers as owner labels.
InitRoot ==
    InitWith(ThreeFiles,
             Rows({Phone1, Alice, Bob}, {"a"}, {DateOf(1)}, {<<13, 37>>}))

SpecRoot == InitRoot /\ [][Next]_vars

\* The logs of up to n rows drawn from rows, one order per multiset.
LogsUpTo(rows, n) ==
    LET rs == SetToSeq(rows)
    IN UNION {{[i \in 1..m |-> rs[idx[i]]] :
                  idx \in {j \in [1..m -> 1..Len(rs)] :
                              \A a \in 1..(m - 1) : j[a] <= j[a + 1]}} :
              m \in 1..n}

\* Two logs of two owners with two message texts on one day, long enough for
\* an owner to have a more and a less frequent partner.
InitPartners ==
    /\ fnames = TwoFiles
    /\ parsed_files_dict \in
           [Range(TwoFiles) ->
               LogsUpTo(Rows({Alice, Bob}, {"a", "b"}, {DateOf(1)}, {<<13, 37>>}),
                        MaxRecs + 1)]
    /\ parsed_raw = parsed_files_dict
    /\ pc = "map_names"
    /\ base_file = None
    /\ mapping = <<>>
    /\ key_idx = 0
    /\ date_idx = 0
    /\ winner_leet = <<>>
    /\ winner_zeet = <<>>
    /\ winner_420 = <<>>
    /\ counter_leet = EmptyCounter
    /\ counter_zeet = EmptyCounter
    /\ counter_420 = EmptyCounter
    /\ days_done = <<>>

SpecPartners == InitPartners /\ [][Next]_vars

(***************************************************************************)
(* The claims.                                                             *)
(***************************************************************************)
Files == Range(fnames)

Owners == Range(LabelOrder)

\* The date the loop body processed last.
LastDate == days_done[Len(days_done)]

\* The rows of owner o in df on date d.
RowsOn(df, o, d) ==
    {i \in DOMAIN df :
        /\ df[i].message_owner = o
        /\ df[i].day = d.day /\ df[i].month = d.month /\ df[i].year = d.year}

\* The rows of owner o in df on date d that have the event flag set.
Flagged(df, o, d, feat_key) ==
    {i \in RowsOn(df, o, d) : Feat(df[i], feat_key) = 1}

\* The files in which owner o has a flagged row on date d.
PresentIn(o, d, feat_key) ==
    {f \in Files : Flagged(parsed_files_dict[f], o, d, feat_key) # {}}

\* The owners whose mean presence over all files is at least one half.
MajorityWinners(d, feat_key) ==
    {o \in Owners : 2 * Cardinality(PresentIn(o, d, feat_key)) >= Cardinality(Files)}

\* C1: the winners of a day are exactly the owners present (with the event
\* flag set) in at least half of ALL files of the collection, a file without
\* a row of the owner on that day counting as 0.
C1_WinnersAreMajorityOfAllFiles ==
    days_done # <<>> =>
        /\ Range(winner_leet) = MajorityWinners(LastDate, "is_leet")
        /\ Range(winner_zeet) = MajorityWinners(LastDate, "is_zeet")

\* df without the repeated flagged rows: of the flagged rows of one owner on
\* one date only the first is kept.
SingleFlagged(df, feat_key) ==
    Select(df, [i \in DOMAIN df |->
                   ~(/\ Feat(df[i], feat_key) = 1
                     /\ \E j \in 1..(i - 1) :
                           /\ Feat(df[j], feat_key) = 1
                           /\ df[j].message_owner = df[i].message_owner
                           /\ df[j].day = df[i].day
                           /\ df[j].month = df[i].month
                           /\ df[j].year = df[i].year)])

CappedFor(feat_key, winners) ==
    LET d == LastDate
        scaffold_df == section_scaffold(d.day, d.month, d.year, fnames,
                                        parsed_files_dict, feat_key)
    IN /\ \A f \in Files :
              LET occ == occ_count(d.day, d.month, d.year,
                                   parsed_files_dict[f], feat_key)
              IN \A o \in DOMAIN occ :
                     /\ occ[o] \in {0, 1}
                     /\ occ[o] = 1 <=>
                            Flagged(parsed_files_dict[f], o, d, feat_key) # {}
       /\ \A c \in DOMAIN scaffold_df.columns :
              \A o \in DOMAIN scaffold_df.columns[c] :
                  /\ scaffold_df.columns[c][o] \in {0, 1}
                  /\ scaffold_df.columns[c][o] = 1 <=>
                         Flagged(parsed_files_dict[fnames[c]], o, d, feat_key) # {}
       /\ winners =
              get_section_winners(d.day, d.month, d.year, fnames,
                  [f \in Files |-> SingleFlagged(parsed_files_dict[f], feat_key)],
                  feat_key)

\* C7: what one file contributes to an owner's vote on a day is 0 or 1, and 1
\* exactly when the owner has at least one flagged row there, however many;
\* the winners are those of the logs with the repeated flagged rows removed.
C7_PresenceCapped ==
    days_done # <<>> =>
        /\ CappedFor("is_leet", winner_leet)
        /\ CappedFor("is_zeet", winner_zeet)

\* A processed day on which an owner has two flagged rows in one file and
\* that file's cell of the owner in the frame is 1.
C7_Witness ==
    /\ days_done # <<>>
    /\ \E c \in DOMAIN fnames : \E o \in Owners :
           LET d == LastDate
               scaffold_df == section_scaffold(d.day, d.month, d.year, fnames,
                                               parsed_files_dict, "is_leet")
           IN /\ Cardinality(Flagged(parsed_files_dict[fnames[c]], o, d,
                                     "is_leet")) >= 2
              /\ o \in DOMAIN scaffold_df.columns[c]
              /\ scaffold_df.columns[c][o] = 1
              /\ o \in Range(winner_leet)

\* The rows of owner o in df on date d, in hour h, with is_420 set.
Flagged420(df, o, d, h) ==
    {i \in Flagged(df, o, d, "is_420") : df[i].hour = h}

\* The owner has an is_420 row in the 04 hour and one in the 16 hour of date
\* d in every file.
BothWindowsEverywhere(o, d) ==
    \A f \in Files :
        /\ Flagged420(parsed_files_dict[f], o, d, 4) # {}
        /\ Flagged420(parsed_files_dict[f], o, d, 16) # {}

Min1(n) == IF n >= 1 THEN 1 ELSE 0

\* What calc_occurences_420 gives for file f on date d.
Occs420(f, d) ==
    LET file_df == parsed_files_dict[f]
        mask == get_date_mask(d.day, file_df, d.month, d.year)
    IN calc_occurences_420(file_df,
           [i \in DOMAIN file_df |-> mask[i] /\ file_df[i].hour = 4],
           [i \in DOMAIN file_df |-> mask[i] /\ file_df[i].hour = 16])

\* C9: for every file and every owner with a row in the 04 or the 16 hour of
\* the day, the file's 420 value of the owner is min(1, is_420 rows in the
\* 04 hour) + min(1, is_420 rows in the 16 hour), whoever else has rows.
C9_WindowsIndependent ==
    days_done # <<>> =>
        \A f \in Files : \A o \in Owners :
            LET df == parsed_files_dict[f]
                d == LastDate
            IN (\E i \in RowsOn(df, o, d) : df[i].hour \in {4, 16}) =>
                   /\ o \in DOMAIN Occs420(f, d)
                   /\ Occs420(f, d)[o] =
                          Min1(Cardinality(Flagged420(df, o, d, 4)))
                          + Min1(Cardinality(Flagged420(df, o, d, 16)))

Abs(x) == IF x < 0 THEN -x ELSE x

OtherFiles == Files \ {base_file}

\* map_names has derived the mappings.
Mapped == pc \in {"convert", "loop", "done"}

\* Every row of one log has a row of the other with the same message text
\* and date.
Overlap(base_df, map_df) ==
    /\ \A i \in DOMAIN base_df : \E p \in merged_dfs(base_df, map_df) : p[1] = i
    /\ \A j \in DOMAIN map_df : \E p \in merged_dfs(base_df, map_df) : p[2] = j

\* The owners of joined rows correspond one to one: two joined pairs have the
\* same root owner exactly when they have the same owner in the other log.
OneToOne(base_df, map_df) ==
    \A p, q \in merged_dfs(base_df, map_df) :
        (base_df[p[1]].message_owner = base_df[q[1]].message_owner)
        <=> (map_df[p[2]].message_owner = map_df[q[2]].message_owner)

\* m is total over the labels of map_df and a bijection onto those of base_df.
TotalBijective(m, base_df, map_df) ==
    /\ DOMAIN m = unique_owners(map_df)
    /\ \A y, z \in DOMAIN m : m[y] = m[z] => y = z
    /\ {m[y] : y \in DOMAIN m} = unique_owners(base_df)

\* C3 as stated: two logs whose rows overlap on text and date for every
\* message get a total, bijective owner mapping.
C3_OverlapGivesBijection ==
    Mapped =>
        \A f \in OtherFiles :
            Overlap(parsed_raw[base_file], parsed_raw[f]) =>
                TotalBijective(mapping[f], parsed_raw[base_file], parsed_raw[f])

\* C3, amended: two logs whose rows overlap on text and date for every
\* message, and in which the owners of the joined rows correspond one to one,
\* get a total, bijective owner mapping.
C3_OneToOneOverlapGivesBijection ==
    Mapped =>
        \A f \in OtherFiles :
            (/\ Overlap(parsed_raw[base_file], parsed_raw[f])
             /\ OneToOne(parsed_raw[base_file], parsed_raw[f])) =>
                TotalBijective(mapping[f], parsed_raw[base_file], parsed_raw[f])

\* Two overlapping logs of two owners each, in one-to-one correspondence, the
\* labels of the one swapped in the other.
C3_Witness ==
    /\ Mapped
    /\ \E f \in OtherFiles :
           /\ Overlap(parsed_raw[base_file], parsed_raw[f])
           /\ OneToOne(parsed_raw[base_file], parsed_raw[f])
           /\ Cardinality(unique_owners(parsed_raw[f])) = 2
           /\ \E y \in DOMAIN mapping[f] : mapping[f][y] # y

\* map_names has rewritten file f.
Converted(f) ==
    \/ pc \in {"loop", "done"}
    \/ /\ pc = "convert"
       /\ \E k \in 1..(key_idx - 1) : files_to_map(fnames, base_file)[k] = f

\* C4: every row of a rewritten file has as its owner the mapping's value for
\* its original label, and None when the label is no key of the mapping;
\* nothing else of the row changes.
C4_RewriteOrNone ==
    \A f \in OtherFiles :
        Converted(f) =>
            /\ DOMAIN parsed_files_dict[f] = DOMAIN parsed_raw[f]
            /\ \A i \in DOMAIN parsed_raw[f] :
                   LET original_label == parsed_raw[f][i].message_owner
                   IN /\ original_label \in DOMAIN mapping[f] =>
                          parsed_files_dict[f][i].message_owner =
                              mapping[f][original_label]
                      /\ original_label \notin DOMAIN mapping[f] =>
                          parsed_files_dict[f][i].message_owner = None
                      /\ [parsed_files_dict[f][i] EXCEPT
                             !.message_owner = original_label] = parsed_raw[f][i]

\* After map_names, a file with a row whose label had no mapping (now None)
\* and a row whose label was mapped to another one.
C4_Witness ==
    /\ pc = "loop"
    /\ \E f \in OtherFiles : \E i, j \in DOMAIN parsed_raw[f] :
           /\ parsed_raw[f][i].message_owner \notin DOMAIN mapping[f]
           /\ parsed_files_dict[f][i].message_owner = None
           /\ parsed_raw[f][j].message_owner \in DOMAIN mapping[f]
           /\ parsed_files_dict[f][j].message_owner # parsed_raw[f][j].message_owner
           /\ parsed_files_dict[f][j].message_owner # None

\* Root selection, mapping derivation and the rewrite of every other file
\* are complete.
Reconciled ==
    /\ base_file = find_root_mapping_file(fnames, parsed_raw)
    /\ DOMAIN mapping = OtherFiles
    /\ \A f \in OtherFiles :
           /\ \E pick \in IdxMaxChoices(parsed_raw[base_file], parsed_raw[f]) :
                  mapping[f] = map_message_owner_names(parsed_raw[base_file],
                                                       parsed_raw[f], pick)
           /\ parsed_files_dict[f] = apply_conversion(parsed_raw[f], mapping[f])
    /\ parsed_files_dict[base_file] = parsed_raw[base_file]

\* C5: when the day loop starts, and whenever winners are computed, the root
\* is selected, every other file has its mapping and is rewritten; the log
\* collection does not change once the loop has started.
C5_ReconciledBeforeWinners ==
    /\ [](pc \in {"loop", "done"} => Reconciled)
    /\ [][(days_done' # days_done => Reconciled)
          /\ (pc \in {"loop", "done"} =>
                 parsed_files_dict' = parsed_files_dict)]_vars

\* A day processed on three files, both other files holding rewritten labels.
C5_Witness ==
    /\ days_done # <<>>
    /\ Cardinality(OtherFiles) = 2
    /\ \A f \in OtherFiles : parsed_files_dict[f] # parsed_raw[f]

ValidCount(f) == Cardinality(valid_names(parsed_raw[f]))

UniqueCount(f) == Cardinality(unique_owners(parsed_raw[f]))

\* File f has ratio 1.0 and strictly more digit-free labels than every other.
BestByFar(f) ==
    /\ ValidCount(f) = UniqueCount(f)
    /\ \A g \in Files \ {f} : ValidCount(f) > ValidCount(g)

\* C6: a file with ratio 1.0 and strictly more digit-free owner labels than
\* every other file is the root, wherever it stands in the iteration order.
C6_BestByFarIsRoot ==
    pc # "map_names" => \A f \in Files : BestByFar(f) => base_file = f

\* Such a file standing first, followed by a file of ratio 1.0 and by a file
\* with a phone number among its labels.
C6_Witness ==
    /\ pc # "map_names"
    /\ BestByFar(fnames[1])
    /\ base_file = fnames[1]
    /\ \E g \in Files \ {fnames[1]} : ValidCount(g) = UniqueCount(g)
    /\ \E g \in Files \ {fnames[1]} : ValidCount(g) < UniqueCount(g)

\* The winner lists of the first k days of the range, one after the other.
WinnersSoFar(k, feat_key) ==
    LET F[j \in 0..k] ==
            IF j = 0 THEN <<>>
            ELSE LET d == date_range[j]
                 IN F[j - 1] \o
                    (IF feat_key = "is_420"
                     THEN get_winner_420(d.day, d.month, d.year, fnames,
                                         parsed_files_dict)
                     ELSE get_section_winners(d.day, d.month, d.year, fnames,
                                              parsed_files_dict, feat_key))
    IN F[k]

CounterGet(counter, o) == IF o \in DOMAIN counter THEN counter[o] ELSE 0

TallyOf(counter, feat_key, last) ==
    LET winners == WinnersSoFar(Len(days_done), feat_key)
    IN /\ \A o \in Owners \cup {None} :
              CounterGet(counter, o) = Count(winners, o)
       /\ (/\ days_done # <<>>
           /\ \A f \in Files : \A o \in Owners :
                  Flagged(parsed_files_dict[f], o, LastDate, feat_key) = {})
          => last = <<>>
       /\ \A o \in DOMAIN counter :
              /\ counter[o] > 0
              /\ \E j \in DOMAIN days_done : \E f \in Files :
                     Flagged(parsed_files_dict[f], o, days_done[j], feat_key) # {}

\* C8: the days of the range are processed in order, each once; after each
\* day every tally holds, per owner, how often the owner was among the daily
\* winners so far; a day without a flagged row in any file has no winners, and
\* an owner without a flagged row on a processed day is in no tally.
C8_RangeTallies ==
    /\ Len(days_done) <= Len(date_range)
    /\ days_done = SubSeq(date_range, 1, Len(days_done))
    /\ pc = "done" => days_done = date_range
    /\ pc \in {"loop", "done"} =>
           /\ date_idx = Len(days_done) + 1
           /\ TallyOf(counter_leet, "is_leet", winner_leet)
           /\ TallyOf(counter_zeet, "is_zeet", winner_zeet)
           /\ TallyOf(counter_420, "is_420", winner_420)

\* The whole range processed, an owner having won leet on two days.
C8_Witness ==
    /\ pc = "done"
    /\ days_done = date_range
    /\ \E o \in DOMAIN counter_leet : counter_leet[o] >= 2

\* The number of joined pairs of root owner x with owner y of the other log.
PairCount(base_df, map_df, x, y) ==
    Cardinality({p \in merged_dfs(base_df, map_df) :
                    /\ base_df[p[1]].message_owner = x
                    /\ map_df[p[2]].message_owner = y})

\* y is a most frequent partner of root owner x in the joined pairs.
MostFrequent(base_df, map_df, x, y) ==
    /\ PairCount(base_df, map_df, x, y) > 0
    /\ \A z \in Owners :
           PairCount(base_df, map_df, x, z) <= PairCount(base_df, map_df, x, y)

\* y is the only most frequent partner of root owner x.
OnlyChoice(base_df, map_df, x, y) ==
    /\ MostFrequent(base_df, map_df, x, y)
    /\ \A z \in Owners \ {y} : ~MostFrequent(base_df, map_df, x, z)

\* m has at most one entry per root owner of a joined pair; its keys are
\* labels of the other log and its values labels of the root, both out of
\* joined pairs, each key a most frequent partner of its value; no two keys
\* have the same value; a label that is nobody's most frequent partner is no
\* key.
InjectiveOntoRoot(m, base_df, map_df) ==
    /\ Cardinality(DOMAIN m) <= Cardinality(owners_x(base_df, map_df))
    /\ DOMAIN m \subseteq owners_y(base_df, map_df)
    /\ \A y \in DOMAIN m :
           /\ m[y] \in owners_x(base_df, map_df)
           /\ MostFrequent(base_df, map_df, m[y], y)
    /\ \A y, z \in DOMAIN m : m[y] = m[z] => y = z
    /\ \A y \in owners_y(base_df, map_df) :
           (\A x \in Owners : ~MostFrequent(base_df, map_df, x, y))
               => y \notin DOMAIN m

\* The root owners whose only most frequent partner is y.
Choosers(base_df, map_df, y) ==
    {x \in Owners : OnlyChoice(base_df, map_df, x, y)}

\* C11 as stated: the mapping is injective onto root labels out of joined
\* pairs, and a label of the other log that an earlier and a later root owner
\* both choose is absent from the mapping.
C11_SharedLabelAbsent ==
    Mapped =>
        \A f \in OtherFiles :
            LET base_df == parsed_raw[base_file]
                map_df == parsed_raw[f]
            IN /\ InjectiveOntoRoot(mapping[f], base_df, map_df)
               /\ \A y \in Owners :
                      Cardinality(Choosers(base_df, map_df, y)) >= 2
                          => y \notin DOMAIN mapping[f]

\* C11, amended: the mapping is injective onto root labels out of joined
\* pairs; a label of the other log that several root owners choose stays a
\* key, its value a root owner no earlier in sorted order than any of them,
\* and the earlier of them are no value of the mapping.
C11_SharedLabelKeepsLast ==
    Mapped =>
        \A f \in OtherFiles :
            LET base_df == parsed_raw[base_file]
                map_df == parsed_raw[f]
                m == mapping[f]
            IN /\ InjectiveOntoRoot(m, base_df, map_df)
               /\ \A y \in Owners :
                      LET xs == Choosers(base_df, map_df, y)
                      IN Cardinality(xs) >= 2 =>
                             /\ y \in DOMAIN m
                             /\ \A x \in xs : Rank(x) <= Rank(m[y])
                             /\ \A x \in xs :
                                    (\E w \in xs : Rank(x) < Rank(w))
                                        => \A z \in DOMAIN m : m[z] # x

\* A mapping derived from joined pairs in which one label of the other log is
\* the only choice of two root owners and is mapped to the later one, and
\* another label of the other log occurs in joined pairs, is less frequent
\* than the first for every root owner, and is no key.
C11_Witness ==
    /\ Mapped
    /\ \E f \in OtherFiles :
           LET base_df == parsed_raw[base_file]
               map_df == parsed_raw[f]
           IN /\ \E y \in Owners :
                     /\ Cardinality(Choosers(base_df, map_df, y)) >= 2
                     /\ y \in DOMAIN mapping[f]
                     /\ mapping[f][y] = Bob
              /\ \E y \in owners_y(base_df, map_df) :
                     /\ \A x \in Owners : ~MostFrequent(base_df, map_df, x, y)
                     /\ y \notin DOMAIN mapping[f]

====
